---- MODULE Spec2Model ----
(***************************************************************************)
(* FinTrack backend (src/backend/server.py): two MongoDB collections,      *)
(* db.spendings and db.income, and the HTTP handlers that read and write   *)
(* them.  Each handler is one action; the state is the content of the two  *)
(* collections, the sources of fresh identifiers and timestamps, and the   *)
(* response of the last request.  Amounts are Python floats in the code;   *)
(* they are modelled as integers (no rounding is modelled).                *)
(***************************************************************************)
EXTENDS Integers, Sequences, FiniteSets, TLC

VARIABLES spendings, income, nextId, nextOid, clock, resp, clients

vars == <<spendings, income, nextId, nextOid, clock, resp, clients>>

store == <<spendings, income>>

(***************************************************************************)
(* Bounds of the model.                                                    *)
(***************************************************************************)
\* A request that constructs records is served while the next identifier
\* (uuid4) is at most MaxId.  A single create and a bulk-create stay within
\* MaxId; the seed load, once started, constructs its whole dataset.
MaxId == 2
\* Longest list a bulk-create request carries.
MaxBatch == 2
\* Concurrent requests in flight under SpecConc.
NumClients == 2
\* How many leading entries of seed_data's two built-in lists are loaded.
SeedSpendingLen == 1
SeedIncomeLen == 1

(***************************************************************************)
(* Program constants.                                                      *)
(***************************************************************************)
\* to_list(10000) in get_spendings
SpendingListCap == 10000
\* to_list(1000) in get_income
IncomeListCap == 1000
\* to_list(10000) / to_list(1000) in get_statistics
StatsSpendingCap == 10000
StatsIncomeCap == 1000

(***************************************************************************)
(* Optional[...] = None of the pydantic models: None is the empty tuple,   *)
(* a present value v is <<v>>.                                             *)
(***************************************************************************)
None == <<>>
Some(v) == <<v>>

Min(a, b) == IF a <= b THEN a ELSE b

(***************************************************************************)
(* Request bodies the clients send.                                        *)
(***************************************************************************)
Months == {"2025-03", "2025-04"}

\* SpendingCreate: category, date, amount are required.
SpendingCreate ==
  { [category |-> "Food", date |-> "2025-04-06", amount |-> 100],
    [category |-> "",     date |-> "2025-04-07", amount |-> 0] }

\* SpendingUpdate: every field Optional, default None.
SpendingUpdate ==
  { [category |-> None,     date |-> None,               amount |-> None],
    [category |-> None,     date |-> None,               amount |-> Some(0)],
    [category |-> Some(""), date |-> Some("2025-04-07"), amount |-> None],
    [category |-> None,     date |-> None,               amount |-> Some(100)] }

\* IncomeCreate: month and income required, saved and home default to 0
\* when the body omits them (None here stands for "omitted").
IncomeCreate ==
  { [month |-> m, income |-> 200, saved |-> None, home |-> None] : m \in Months }
  \cup
  { [month |-> m, income |-> 0, saved |-> Some(10), home |-> Some(5)] : m \in Months }

\* IncomeUpdate: every field Optional, default None.
IncomeUpdate ==
  { [income |-> None,    saved |-> None,     home |-> None],
    [income |-> None,    saved |-> Some(10), home |-> None],
    [income |-> Some(0), saved |-> None,     home |-> Some(5)],
    [income |-> None,    saved |-> Some(0),  home |-> None] }

\* The lists a bulk-create request may carry: every list of at most
\* MaxBatch items.
RECURSIVE ListsOf(_, _)
ListsOf(S, n) ==
  IF n = 0 THEN {<<>>}
  ELSE LET shorter == ListsOf(S, n - 1)
       IN  shorter \cup { Append(l, x) : l \in { s \in shorter : Len(s) = n - 1 }, x \in S }

SpendingFields == {"id", "category", "date", "amount", "created_at"}
IncomeFields == {"id", "month", "income", "saved", "home", "created_at"}

(***************************************************************************)
(* The document store (motor / MongoDB).  A collection is the sequence of  *)
(* its documents in natural order; insert gives each document an _id.      *)
(***************************************************************************)
insert_one(coll, doc, oid) == Append(coll, [_id |-> oid] @@ doc)

insert_many(coll, docs, oid) ==
  coll \o [i \in 1..Len(docs) |-> [_id |-> oid + i - 1] @@ docs[i]]

\* The positions of the documents a filter {key: val} matches.
Matching(coll, key, val) ==
  { i \in 1..Len(coll) : key \in DOMAIN coll[i] /\ coll[i][key] = val }

\* A projection that lists fields ({"amount": 1, ...}) keeps those present.
Project(doc, fields) == [k \in DOMAIN doc \cap fields |-> doc[k]]

\* The projection {"_id": 0}, and del result["_id"].
DropOid(doc) == [k \in DOMAIN doc \ {"_id"} |-> doc[k]]

\* cursor.to_list(None): every document.
to_list_all(docs, n) == docs

\* cursor.to_list(n): at most the first n documents.
to_list(docs, n) == SubSeq(docs, 1, Min(Len(docs), n))

\* {"$set": update_data} on one document.
Set(doc, update_data) ==
  [k \in DOMAIN doc \cup DOMAIN update_data |->
     IF k \in DOMAIN update_data THEN update_data[k] ELSE doc[k]]

\* delete_one removes the document at one matching position.
RemoveAt(coll, i) == SubSeq(coll, 1, i - 1) \o SubSeq(coll, i + 1, Len(coll))

\* dict.get(key, default)
Get(doc, key, default) == IF key \in DOMAIN doc THEN doc[key] ELSE default

\* Python's sum(...) over a list of numbers.  Integer addition is
\* associative, so the left-to-right fold is computed by halving, which
\* keeps the evaluation shallow on long lists.
RECURSIVE SumRange(_, _, _)
SumRange(xs, lo, hi) ==
  IF lo > hi THEN 0
  ELSE IF lo = hi THEN xs[lo]
  ELSE LET mid == (lo + hi) \div 2
       IN  SumRange(xs, lo, mid) + SumRange(xs, mid + 1, hi)

sum(xs) == SumRange(xs, 1, Len(xs))

(***************************************************************************)
(* The pydantic models.                                                    *)
(***************************************************************************)
\* update_data = {k: v for k, v in body.model_dump().items() if v}: a zero
\* and an empty string are dropped with the nulls.
NotNone_truthy(body) ==
  [k \in { f \in DOMAIN body :
             /\ body[f] /= None
             /\ IF f \in {"category", "date"} THEN body[f][1] /= "" ELSE body[f][1] /= 0 }
     |-> body[k][1]]

\* update_data = {k: v for k, v in body.model_dump().items() if v is not None}
NotNone(body) ==
  [k \in { f \in DOMAIN body : body[f] /= None } |-> body[k][1]]

\* Spending whose id default is a value made once, when the class is
\* defined (Field(default=...) in place of default_factory).
Spending_fixed_id(s, id, now) ==
  [id |-> 0, category |-> s.category, date |-> s.date, amount |-> s.amount,
   created_at |-> now]

\* Spending(**s.model_dump()).model_dump(): a fresh id and created_at.
Spending(s, id, now) ==
  [id |-> id, category |-> s.category, date |-> s.date, amount |-> s.amount,
   created_at |-> now]

\* IncomeCreate parsing: an omitted saved / home takes its default 0.
Default(opt, d) == IF opt = None THEN d ELSE opt[1]

\* Income that fills home from saved.
Income_home_from_saved(i, id, now) ==
  [id |-> id, month |-> i.month, income |-> i.income,
   saved |-> Default(i.saved, 0), home |-> Default(i.saved, 0),
   created_at |-> now]

\* Income(**i.model_dump()).model_dump(): a fresh id and created_at.
Income(i, id, now) ==
  [id |-> id, month |-> i.month, income |-> i.income,
   saved |-> Default(i.saved, 0), home |-> Default(i.home, 0),
   created_at |-> now]

\* response_model=Spending / Income with extra="ignore": the known fields.
AsSpending(doc) == [k \in SpendingFields |-> doc[k]]
AsIncome(doc) == [k \in IncomeFields |-> doc[k]]

Response(op, status, body) == [op |-> op, status |-> status, body |-> body]

\* HTTPException(status_code, detail)
HTTPException(op, status, detail) == Response(op, status, [detail |-> detail])

\* One construction draws the next identifier and timestamp.
Drawn(n) ==
  /\ nextId' = nextId + n
  /\ clock' = clock + n

(***************************************************************************)
(* Spendings endpoints.                                                    *)
(***************************************************************************)
\* find({}, {"_id": 0}): every document, in natural order, without _id.
find(coll) == [i \in 1..Len(coll) |-> DropOid(coll[i])]

\* response_model=List[Spending]: each document as a Spending.
Spendings(found) == [i \in 1..Len(found) |-> AsSpending(found[i])]

\* GET /spendings
get_spendings ==
  /\ resp' = Response("get_spendings", 200,
                      Spendings(to_list(find(spendings), SpendingListCap)))
  /\ UNCHANGED <<spendings, income, nextId, nextOid, clock, clients>>

\* POST /spendings
create_spending(s) ==
  /\ nextId <= MaxId
  /\ LET spending_obj == Spending(s, nextId, clock)
     IN  /\ spendings' = insert_one(spendings, spending_obj, nextOid)
         /\ resp' = Response("create_spending", 201, spending_obj)
  /\ Drawn(1)
  /\ nextOid' = nextOid + 1
  /\ UNCHANGED <<income, clients>>

\* update_spending without return_document=True: find_one_and_update then
\* returns the document as it was before the update.
update_spending_returns_before(spending_id, spending) ==
  LET update_data == NotNone(spending)
  IN  /\ IF DOMAIN update_data = {}
           THEN /\ resp' = HTTPException("update_spending", 400, "No fields to update")
                /\ UNCHANGED spendings
         ELSE IF Matching(spendings, "id", spending_id) = {}
           THEN /\ resp' = HTTPException("update_spending", 404, "Spending not found")
                /\ UNCHANGED spendings
         ELSE \E i \in Matching(spendings, "id", spending_id) :
                /\ spendings' = [spendings EXCEPT ![i] = Set(@, update_data)]
                /\ resp' = Response("update_spending", 200,
                                    AsSpending(DropOid(spendings[i])))
      /\ UNCHANGED <<income, nextId, nextOid, clock, clients>>

\* update_spending with upsert=True: a missing id is inserted, not refused.
update_spending_upsert(spending_id, spending) ==
  LET update_data == NotNone(spending)
  IN  /\ IF DOMAIN update_data = {}
           THEN /\ resp' = HTTPException("update_spending", 400, "No fields to update")
                /\ UNCHANGED <<spendings, nextOid>>
         ELSE IF Matching(spendings, "id", spending_id) = {}
           THEN /\ spendings' = insert_one(spendings, Set([id |-> spending_id], update_data),
                                           nextOid)
                /\ resp' = Response("update_spending", 200,
                                    Set([id |-> spending_id], update_data))
                /\ nextOid' = nextOid + 1
         ELSE \E i \in Matching(spendings, "id", spending_id) :
                /\ spendings' = [spendings EXCEPT ![i] = Set(@, update_data)]
                /\ resp' = Response("update_spending", 200,
                                    AsSpending(DropOid(spendings'[i])))
                /\ UNCHANGED nextOid
      /\ UNCHANGED <<income, nextId, clock, clients>>

\* PUT /spendings/{spending_id}
update_spending(spending_id, spending) ==
  LET update_data == NotNone(spending)
  IN  /\ IF DOMAIN update_data = {}
           THEN /\ resp' = HTTPException("update_spending", 400, "No fields to update")
                /\ UNCHANGED spendings
         ELSE IF Matching(spendings, "id", spending_id) = {}
           THEN /\ resp' = HTTPException("update_spending", 404, "Spending not found")
                /\ UNCHANGED spendings
         ELSE \E i \in Matching(spendings, "id", spending_id) :
                /\ spendings' = [spendings EXCEPT ![i] = Set(@, update_data)]
                /\ resp' = Response("update_spending", 200,
                                    AsSpending(DropOid(spendings'[i])))
      /\ UNCHANGED <<income, nextId, nextOid, clock, clients>>

\* delete_spending without the deleted_count check.
delete_spending_unchecked(spending_id) ==
  /\ IF Matching(spendings, "id", spending_id) = {}
       THEN UNCHANGED spendings
       ELSE \E i \in Matching(spendings, "id", spending_id) :
              spendings' = RemoveAt(spendings, i)
  /\ resp' = Response("delete_spending", 200,
                      [message |-> "Spending deleted successfully"])
  /\ UNCHANGED <<income, nextId, nextOid, clock, clients>>

\* DELETE /spendings/{spending_id}
delete_spending(spending_id) ==
  /\ IF Matching(spendings, "id", spending_id) = {}
       THEN /\ resp' = HTTPException("delete_spending", 404, "Spending not found")
            /\ UNCHANGED spendings
       ELSE \E i \in Matching(spendings, "id", spending_id) :
              /\ spendings' = RemoveAt(spendings, i)
              /\ resp' = Response("delete_spending", 200,
                                  [message |-> "Spending deleted successfully"])
  /\ UNCHANGED <<income, nextId, nextOid, clock, clients>>

\* create_bulk_spendings that constructs one Spending identity before the
\* loop: every record of the batch gets the same id.
create_bulk_spendings_one_id(batch) ==
  /\ nextId + Len(batch) - 1 <= MaxId
  /\ LET spending_docs ==
           [i \in 1..Len(batch) |-> Spending(batch[i], nextId, clock)]
     IN  /\ spendings' = IF spending_docs /= <<>>
                           THEN insert_many(spendings, spending_docs, nextOid)
                           ELSE spendings
         /\ resp' = Response("create_bulk_spendings", 200,
                             [message |-> <<"Created", Len(spending_docs), "spending records">>])
  /\ Drawn(Len(batch))
  /\ nextOid' = nextOid + Len(batch)
  /\ UNCHANGED <<income, clients>>

\* POST /spendings/bulk
create_bulk_spendings(batch) ==
  /\ nextId + Len(batch) - 1 <= MaxId
  /\ LET spending_docs ==
           [i \in 1..Len(batch) |-> Spending(batch[i], nextId + i - 1, clock + i - 1)]
     IN  /\ spendings' = IF spending_docs /= <<>>
                           THEN insert_many(spendings, spending_docs, nextOid)
                           ELSE spendings
         /\ resp' = Response("create_bulk_spendings", 200,
                             [message |-> <<"Created", Len(spending_docs), "spending records">>])
  /\ Drawn(Len(batch))
  /\ nextOid' = nextOid + Len(batch)
  /\ UNCHANGED <<income, clients>>

(***************************************************************************)
(* Income endpoints.                                                       *)
(***************************************************************************)
\* response_model=List[Income]: each document as an Income.
Incomes(found) == [i \in 1..Len(found) |-> AsIncome(found[i])]

\* GET /income
get_income ==
  /\ resp' = Response("get_income", 200,
                      Incomes(to_list(find(income), IncomeListCap)))
  /\ UNCHANGED <<spendings, income, nextId, nextOid, clock, clients>>

\* create_income without the lookup of the month.
create_income_unchecked(i) ==
  /\ nextId <= MaxId
  /\ LET income_obj == Income(i, nextId, clock)
     IN  /\ income' = insert_one(income, income_obj, nextOid)
         /\ resp' = Response("create_income", 201, income_obj)
  /\ Drawn(1)
  /\ nextOid' = nextOid + 1
  /\ UNCHANGED <<spendings, clients>>

\* POST /income
create_income(i) ==
  IF Matching(income, "month", i.month) /= {}
    THEN /\ resp' = HTTPException("create_income", 400,
                      "Income record for this month already exists. Use PUT to update.")
         /\ UNCHANGED <<spendings, income, nextId, nextOid, clock, clients>>
    ELSE /\ nextId <= MaxId
         /\ LET income_obj == Income(i, nextId, clock)
            IN  /\ income' = insert_one(income, income_obj, nextOid)
                /\ resp' = Response("create_income", 201, income_obj)
         /\ Drawn(1)
         /\ nextOid' = nextOid + 1
         /\ UNCHANGED <<spendings, clients>>

\* update_income that looks the month up before it looks at the change-set.
update_income_lookup_first(month, body) ==
  LET update_data == NotNone(body)
  IN  /\ IF Matching(income, "month", month) = {}
           THEN /\ resp' = HTTPException("update_income", 404, "Income record not found")
                /\ UNCHANGED income
         ELSE IF DOMAIN update_data = {}
           THEN /\ resp' = HTTPException("update_income", 400, "No fields to update")
                /\ UNCHANGED income
         ELSE \E i \in Matching(income, "month", month) :
                /\ income' = [income EXCEPT ![i] = Set(@, update_data)]
                /\ resp' = Response("update_income", 200, AsIncome(DropOid(income'[i])))
      /\ UNCHANGED <<spendings, nextId, nextOid, clock, clients>>

\* update_income whose filter does not name the month: any document matches.
update_income_any_month(month, body) ==
  LET update_data == NotNone(body)
  IN  /\ IF DOMAIN update_data = {}
           THEN /\ resp' = HTTPException("update_income", 400, "No fields to update")
                /\ UNCHANGED income
         ELSE IF income = <<>>
           THEN /\ resp' = HTTPException("update_income", 404, "Income record not found")
                /\ UNCHANGED income
         ELSE \E i \in 1..Len(income) :
                /\ income' = [income EXCEPT ![i] = Set(@, update_data)]
                /\ resp' = Response("update_income", 200, AsIncome(DropOid(income'[i])))
      /\ UNCHANGED <<spendings, nextId, nextOid, clock, clients>>

\* update_income that stamps the record with the time of the update.
update_income_stamps(month, body) ==
  LET update_data == NotNone(body)
  IN  /\ IF DOMAIN update_data = {}
           THEN /\ resp' = HTTPException("update_income", 400, "No fields to update")
                /\ UNCHANGED income
         ELSE IF Matching(income, "month", month) = {}
           THEN /\ resp' = HTTPException("update_income", 404, "Income record not found")
                /\ UNCHANGED income
         ELSE \E i \in Matching(income, "month", month) :
                /\ income' = [income EXCEPT
                                ![i] = Set(@, [created_at |-> clock] @@ update_data)]
                /\ resp' = Response("update_income", 200, AsIncome(DropOid(income'[i])))
      /\ UNCHANGED <<spendings, nextId, nextOid, clock, clients>>

\* PUT /income/{month}
update_income(month, body) ==
  LET update_data == NotNone(body)
  IN  /\ IF DOMAIN update_data = {}
           THEN /\ resp' = HTTPException("update_income", 400, "No fields to update")
                /\ UNCHANGED income
         ELSE IF Matching(income, "month", month) = {}
           THEN /\ resp' = HTTPException("update_income", 404, "Income record not found")
                /\ UNCHANGED income
         ELSE \E i \in Matching(income, "month", month) :
                /\ income' = [income EXCEPT ![i] = Set(@, update_data)]
                /\ resp' = Response("update_income", 200, AsIncome(DropOid(income'[i])))
      /\ UNCHANGED <<spendings, nextId, nextOid, clock, clients>>

\* delete_income with delete_many: every record of the month is removed.
delete_income_many(month) ==
  /\ IF Matching(income, "month", month) = {}
       THEN /\ resp' = HTTPException("delete_income", 404, "Income record not found")
            /\ UNCHANGED income
       ELSE /\ income' = SelectSeq(income, LAMBDA d : d.month /= month)
            /\ resp' = Response("delete_income", 200,
                                [message |-> "Income record deleted successfully"])
  /\ UNCHANGED <<spendings, nextId, nextOid, clock, clients>>

\* DELETE /income/{month}
delete_income(month) ==
  /\ IF Matching(income, "month", month) = {}
       THEN /\ resp' = HTTPException("delete_income", 404, "Income record not found")
            /\ UNCHANGED income
       ELSE \E i \in Matching(income, "month", month) :
              /\ income' = RemoveAt(income, i)
              /\ resp' = Response("delete_income", 200,
                                  [message |-> "Income record deleted successfully"])
  /\ UNCHANGED <<spendings, nextId, nextOid, clock, clients>>

\* create_bulk_income that skips an item whose month the ledger or an earlier
\* item of the batch already has.
create_bulk_income_unique(batch) ==
  /\ nextId + Len(batch) - 1 <= MaxId
  /\ LET kept == { k \in 1..Len(batch) :
                     /\ Matching(income, "month", batch[k].month) = {}
                     /\ \A j \in 1..(k - 1) : batch[j].month /= batch[k].month }
         pos(n) == CHOOSE k \in kept : Cardinality({ j \in kept : j <= k }) = n
         income_docs ==
           [n \in 1..Cardinality(kept) |->
              Income(batch[pos(n)], nextId + n - 1, clock + n - 1)]
     IN  /\ income' = IF income_docs /= <<>>
                        THEN insert_many(income, income_docs, nextOid)
                        ELSE income
         /\ resp' = Response("create_bulk_income", 200,
                             [message |-> <<"Created", Len(income_docs), "income records">>])
         /\ Drawn(Len(income_docs))
         /\ nextOid' = nextOid + Len(income_docs)
  /\ UNCHANGED <<spendings, clients>>

\* create_bulk_income that writes its documents to db.spendings.
create_bulk_income_into_spendings(batch) ==
  /\ nextId + Len(batch) - 1 <= MaxId
  /\ LET income_docs ==
           [i \in 1..Len(batch) |-> Income(batch[i], nextId + i - 1, clock + i - 1)]
     IN  /\ spendings' = IF income_docs /= <<>>
                           THEN insert_many(spendings, income_docs, nextOid)
                           ELSE spendings
         /\ resp' = Response("create_bulk_income", 200,
                             [message |-> <<"Created", Len(income_docs), "income records">>])
  /\ Drawn(Len(batch))
  /\ nextOid' = nextOid + Len(batch)
  /\ UNCHANGED <<income, clients>>

\* POST /income/bulk
create_bulk_income(batch) ==
  /\ nextId + Len(batch) - 1 <= MaxId
  /\ LET income_docs ==
           [i \in 1..Len(batch) |-> Income(batch[i], nextId + i - 1, clock + i - 1)]
     IN  /\ income' = IF income_docs /= <<>>
                        THEN insert_many(income, income_docs, nextOid)
                        ELSE income
         /\ resp' = Response("create_bulk_income", 200,
                             [message |-> <<"Created", Len(income_docs), "income records">>])
  /\ Drawn(Len(batch))
  /\ nextOid' = nextOid + Len(batch)
  /\ UNCHANGED <<spendings, clients>>

(***************************************************************************)
(* Statistics endpoint.                                                    *)
(***************************************************************************)
\* statistics with the two terms of net_balance exchanged.
statistics_net_reversed(spendings_l, income_records) ==
  LET total_spending == sum([i \in 1..Len(spendings_l) |-> Get(spendings_l[i], "amount", 0)])
      total_income == sum([i \in 1..Len(income_records) |-> Get(income_records[i], "income", 0)])
      total_saved == sum([i \in 1..Len(income_records) |-> Get(income_records[i], "saved", 0)])
      total_home == sum([i \in 1..Len(income_records) |-> Get(income_records[i], "home", 0)])
  IN  [total_spending |-> total_spending,
       total_income   |-> total_income,
       total_saved    |-> total_saved,
       total_home     |-> total_home,
       net_balance    |-> total_spending - total_income,
       spending_count |-> Len(spendings_l),
       income_months  |-> Len(income_records)]

\* What get_statistics computes from the two lists it has read.
statistics(spendings_l, income_records) ==
  LET total_spending == sum([i \in 1..Len(spendings_l) |-> Get(spendings_l[i], "amount", 0)])
      total_income == sum([i \in 1..Len(income_records) |-> Get(income_records[i], "income", 0)])
      total_saved == sum([i \in 1..Len(income_records) |-> Get(income_records[i], "saved", 0)])
      total_home == sum([i \in 1..Len(income_records) |-> Get(income_records[i], "home", 0)])
  IN  [total_spending |-> total_spending,
       total_income   |-> total_income,
       total_saved    |-> total_saved,
       total_home     |-> total_home,
       net_balance    |-> total_income - total_spending,
       spending_count |-> Len(spendings_l),
       income_months  |-> Len(income_records)]

\* GET /statistics
get_statistics ==
  /\ resp' = Response("get_statistics", 200,
               statistics(
                 to_list([i \in 1..Len(spendings) |-> Project(spendings[i], {"amount"})],
                         StatsSpendingCap),
                 to_list([i \in 1..Len(income) |->
                            Project(income[i], {"income", "saved", "home"})],
                         StatsIncomeCap)))
  /\ UNCHANGED <<spendings, income, nextId, nextOid, clock, clients>>

(***************************************************************************)
(* Data seeding endpoint.  Amounts of the built-in lists are written in    *)
(* hundredths (765848.36 is 76584836).                                     *)
(***************************************************************************)
initial_spendings ==
  SubSeq(<< [category |-> "Luminar",  date |-> "2025-03-27", amount |-> 11042400],
            [category |-> "Internet", date |-> "2025-03-27", amount |-> 700000],
            [category |-> "iTunes",   date |-> "2025-03-27", amount |-> 725000] >>,
         1, SeedSpendingLen)

initial_income ==
  SubSeq(<< [month |-> "2025-03", income |-> 76584836,  saved |-> Some(0), home |-> Some(70000000)],
            [month |-> "2025-04", income |-> 105976954, saved |-> Some(0), home |-> Some(0)],
            [month |-> "2025-05", income |-> 129926000, saved |-> Some(0), home |-> Some(0)] >>,
         1, SeedIncomeLen)

\* seed_data whose guard is `and`: it holds back only when both ledgers have
\* data.
seed_data_both_nonempty ==
  LET spending_count == Len(spendings)
      income_count == Len(income)
  IN  IF spending_count > 0 /\ income_count > 0
        THEN /\ resp' = Response("seed_data", 200,
                          [message |-> "Database already has data",
                           spendings |-> spending_count,
                           income_records |-> income_count])
             /\ UNCHANGED <<spendings, income, nextId, nextOid, clock, clients>>
        ELSE /\ nextId <= MaxId
             /\ LET ns == Len(initial_spendings)
                    ni == Len(initial_income)
                    spending_docs ==
                      [k \in 1..ns |-> Spending(initial_spendings[k], nextId + k - 1, clock + k - 1)]
                    income_docs ==
                      [k \in 1..ni |->
                         Income(initial_income[k], nextId + ns + k - 1, clock + ns + k - 1)]
                IN  /\ spendings' = IF spending_docs /= <<>>
                                      THEN insert_many(spendings, spending_docs, nextOid)
                                      ELSE spendings
                    /\ income' = IF income_docs /= <<>>
                                   THEN insert_many(income, income_docs, nextOid + ns)
                                   ELSE income
                    /\ resp' = Response("seed_data", 200,
                                 [message |-> "Database seeded successfully",
                                  spendings_created |-> Len(spending_docs),
                                  income_records_created |-> Len(income_docs)])
                    /\ Drawn(ns + ni)
                    /\ nextOid' = nextOid + ns + ni
             /\ UNCHANGED clients

\* seed_data that answers the guarded call with the sizes of the dataset.
seed_data_reports_dataset ==
  LET spending_count == Len(spendings)
      income_count == Len(income)
  IN  IF spending_count > 0 \/ income_count > 0
        THEN /\ resp' = Response("seed_data", 200,
                          [message |-> "Database already has data",
                           spendings |-> Len(initial_spendings),
                           income_records |-> Len(initial_income)])
             /\ UNCHANGED <<spendings, income, nextId, nextOid, clock, clients>>
        ELSE /\ nextId <= MaxId
             /\ LET ns == Len(initial_spendings)
                    ni == Len(initial_income)
                    spending_docs ==
                      [k \in 1..ns |-> Spending(initial_spendings[k], nextId + k - 1, clock + k - 1)]
                    income_docs ==
                      [k \in 1..ni |->
                         Income(initial_income[k], nextId + ns + k - 1, clock + ns + k - 1)]
                IN  /\ spendings' = IF spending_docs /= <<>>
                                      THEN insert_many(spendings, spending_docs, nextOid)
                                      ELSE spendings
                    /\ income' = IF income_docs /= <<>>
                                   THEN insert_many(income, income_docs, nextOid + ns)
                                   ELSE income
                    /\ resp' = Response("seed_data", 200,
                                 [message |-> "Database seeded successfully",
                                  spendings_created |-> Len(spending_docs),
                                  income_records_created |-> Len(income_docs)])
                    /\ Drawn(ns + ni)
                    /\ nextOid' = nextOid + ns + ni
             /\ UNCHANGED clients

\* seed_data that answers the guarded call with zero counts.
seed_data_reports_zero ==
  LET spending_count == Len(spendings)
      income_count == Len(income)
  IN  IF spending_count > 0 \/ income_count > 0
        THEN /\ resp' = Response("seed_data", 200,
                          [message |-> "Database already has data",
                           spendings |-> 0,
                           income_records |-> 0])
             /\ UNCHANGED <<spendings, income, nextId, nextOid, clock, clients>>
        ELSE /\ nextId <= MaxId
             /\ LET ns == Len(initial_spendings)
                    ni == Len(initial_income)
                    spending_docs ==
                      [k \in 1..ns |-> Spending(initial_spendings[k], nextId + k - 1, clock + k - 1)]
                    income_docs ==
                      [k \in 1..ni |->
                         Income(initial_income[k], nextId + ns + k - 1, clock + ns + k - 1)]
                IN  /\ spendings' = IF spending_docs /= <<>>
                                      THEN insert_many(spendings, spending_docs, nextOid)
                                      ELSE spendings
                    /\ income' = IF income_docs /= <<>>
                                   THEN insert_many(income, income_docs, nextOid + ns)
                                   ELSE income
                    /\ resp' = Response("seed_data", 200,
                                 [message |-> "Database seeded successfully",
                                  spendings_created |-> Len(spending_docs),
                                  income_records_created |-> Len(income_docs)])
                    /\ Drawn(ns + ni)
                    /\ nextOid' = nextOid + ns + ni
             /\ UNCHANGED clients

\* POST /seed
seed_data ==
  LET spending_count == Len(spendings)
      income_count == Len(income)
  IN  IF spending_count > 0 \/ income_count > 0
        THEN /\ resp' = Response("seed_data", 200,
                          [message |-> "Database already has data",
                           spendings |-> spending_count,
                           income_records |-> income_count])
             /\ UNCHANGED <<spendings, income, nextId, nextOid, clock, clients>>
        ELSE /\ nextId <= MaxId
             /\ LET ns == Len(initial_spendings)
                    ni == Len(initial_income)
                    spending_docs ==
                      [k \in 1..ns |-> Spending(initial_spendings[k], nextId + k - 1, clock + k - 1)]
                    income_docs ==
                      [k \in 1..ni |->
                         Income(initial_income[k], nextId + ns + k - 1, clock + ns + k - 1)]
                IN  /\ spendings' = IF spending_docs /= <<>>
                                      THEN insert_many(spendings, spending_docs, nextOid)
                                      ELSE spendings
                    /\ income' = IF income_docs /= <<>>
                                   THEN insert_many(income, income_docs, nextOid + ns)
                                   ELSE income
                    /\ resp' = Response("seed_data", 200,
                                 [message |-> "Database seeded successfully",
                                  spendings_created |-> Len(spending_docs),
                                  income_records_created |-> Len(income_docs)])
                    /\ Drawn(ns + ni)
                    /\ nextOid' = nextOid + ns + ni
             /\ UNCHANGED clients

(***************************************************************************)
(* The requests served one at a time.                                      *)
(***************************************************************************)
Clients == 1..NumClients

NoResponse == Response("none", 0, [detail |-> "none"])

Idle == [pc |-> "idle"]

Init ==
  /\ spendings = <<>>
  /\ income = <<>>
  /\ nextId = 1
  /\ nextOid = 1
  /\ clock = 1
  /\ resp = NoResponse
  /\ clients = [c \in Clients |-> Idle]

\* The identifiers a path parameter names: every identifier drawn so far
\* and the next one (never drawn, so never stored).
PathIds == 1..nextId

Next ==
  \/ get_spendings
  \/ \E s \in SpendingCreate : create_spending(s)
  \/ \E id \in PathIds, s \in SpendingUpdate : update_spending(id, s)
  \/ \E id \in PathIds : delete_spending(id)
  \/ \E batch \in ListsOf(SpendingCreate, MaxBatch) : create_bulk_spendings(batch)
  \/ get_income
  \/ \E i \in IncomeCreate : create_income(i)
  \/ \E m \in Months, i \in IncomeUpdate : update_income(m, i)
  \/ \E m \in Months : delete_income(m)
  \/ \E batch \in ListsOf(IncomeCreate, MaxBatch) : create_bulk_income(batch)
  \/ get_statistics
  \/ seed_data

Spec == Init /\ [][Next]_vars

(***************************************************************************)
(* Requests served concurrently.  The handlers are coroutines on one event *)
(* loop: a handler runs alone from one await to the next, and another      *)
(* request may be served while it awaits the store.  create_income awaits  *)
(* twice, find_one and then insert_one; each client here sends one such    *)
(* request.                                                                *)
(***************************************************************************)
\* create_income up to its first await and the test of what it returns:
\* existing = await db.income.find_one({"month": income.month}); if existing
create_income_find(c, i) ==
  /\ clients[c].pc = "idle"
  /\ IF Matching(income, "month", i.month) /= {}
       THEN clients' = [clients EXCEPT ![c] =
              [pc |-> "done",
               resp |-> HTTPException("create_income", 400,
                          "Income record for this month already exists. Use PUT to update.")]]
       ELSE clients' = [clients EXCEPT ![c] = [pc |-> "create_income_insert", income |-> i]]
  /\ UNCHANGED <<spendings, income, nextId, nextOid, clock, resp>>

\* The insert of a create_income that found a record of its month when it
\* comes to insert (one conditional insert in place of the two awaits).
create_income_insert_if_absent(c) ==
  /\ clients[c].pc = "create_income_insert"
  /\ nextId <= MaxId
  /\ IF Matching(income, "month", clients[c].income.month) /= {}
       THEN /\ clients' = [clients EXCEPT ![c] =
                 [pc |-> "done",
                  resp |-> HTTPException("create_income", 400,
                             "Income record for this month already exists. Use PUT to update.")]]
            /\ UNCHANGED <<income, nextId, nextOid, clock>>
       ELSE /\ LET income_obj == Income(clients[c].income, nextId, clock)
               IN  /\ income' = insert_one(income, income_obj, nextOid)
                   /\ clients' = [clients EXCEPT ![c] =
                        [pc |-> "done", resp |-> Response("create_income", 201, income_obj)]]
            /\ Drawn(1)
            /\ nextOid' = nextOid + 1
  /\ UNCHANGED <<spendings, resp>>

\* The rest of create_income: the record is made, inserted and returned.
create_income_insert(c) ==
  /\ clients[c].pc = "create_income_insert"
  /\ nextId <= MaxId
  /\ LET income_obj == Income(clients[c].income, nextId, clock)
     IN  /\ income' = insert_one(income, income_obj, nextOid)
         /\ clients' = [clients EXCEPT ![c] =
              [pc |-> "done", resp |-> Response("create_income", 201, income_obj)]]
  /\ Drawn(1)
  /\ nextOid' = nextOid + 1
  /\ UNCHANGED <<spendings, resp>>

NextConc ==
  \/ \E c \in Clients, i \in IncomeCreate : create_income_find(c, i)
  \/ \E c \in Clients : create_income_insert(c)

SpecConc == Init /\ [][NextConc]_vars

(***************************************************************************)
(* Statistics over a store found as it is.  get_statistics reads what the  *)
(* two collections hold, whoever wrote it: the ledgers here are drawn from *)
(* short lists of documents, some written without the fields a later       *)
(* schema added, and one income ledger longer than get_statistics reads.   *)
(***************************************************************************)
\* Stored documents from the contents given, with ids in order.
Stored(contents) ==
  [k \in 1..Len(contents) |-> [_id |-> k, id |-> k, created_at |-> k] @@ contents[k]]

StoredSpendingContents ==
  { [category |-> "Food", date |-> "2025-04-06", amount |-> 100],
    [category |-> "Taxi", date |-> "2025-04-07", amount |-> 50],
    [category |-> "Food", date |-> "2025-04-07"] }

StoredIncomeContents ==
  { [month |-> "2025-03", income |-> 200, saved |-> 10, home |-> 5],
    [month |-> "2025-04", income |-> 300, saved |-> 0, home |-> 0],
    [month |-> "2025-04", income |-> 300] }

\* One more income record than get_statistics reads.
LongIncome ==
  [k \in 1..(StatsIncomeCap + 1) |->
     [month |-> "2025-03", income |-> 200, saved |-> 10, home |-> 5]]

InitStats ==
  /\ spendings \in { Stored(l) : l \in ListsOf(StoredSpendingContents, MaxBatch) }
  /\ income \in { Stored(l) : l \in ListsOf(StoredIncomeContents, MaxBatch) \cup {LongIncome} }
  /\ nextId = Len(spendings) + Len(income) + 1
  /\ nextOid = nextId
  /\ clock = nextId
  /\ resp = NoResponse
  /\ clients = [c \in Clients |-> Idle]

NextStats == get_statistics

SpecStats == InitStats /\ [][NextStats]_vars

(***************************************************************************)
(* Listing and creating on ledgers that have grown to the length a list    *)
(* call reads.  The store starts with each ledger either empty or holding  *)
(* as many documents as to_list takes (written by earlier requests, their  *)
(* identifiers drawn before the first one of this run), and clients create *)
(* records and list the ledgers.                                           *)
(***************************************************************************)
\* Documents stored by earlier requests: identifiers 1 - Len .. 0, in order.
Preloaded(contents) ==
  [k \in 1..Len(contents) |->
     [_id |-> k - Len(contents), id |-> k - Len(contents),
      created_at |-> k - Len(contents)] @@ contents[k]]

\* As many spending records as get_spendings reads.
FullSpendings ==
  [k \in 1..SpendingListCap |->
     [category |-> "Food", date |-> "2025-04-06", amount |-> 100]]

\* As many income records as get_income reads.
FullIncome ==
  [k \in 1..IncomeListCap |->
     [month |-> "2025-03", income |-> 200, saved |-> 10, home |-> 5]]

\* Both ledgers empty, or one of them full.
InitLong ==
  /\ \E found \in { <<Preloaded(<<>>), Preloaded(<<>>)>>,
                      <<Preloaded(FullSpendings), Preloaded(<<>>)>>,
                      <<Preloaded(<<>>), Preloaded(FullIncome)>> } :
       /\ spendings = found[1]
       /\ income = found[2]
  /\ nextId = 1
  /\ nextOid = 1
  /\ clock = 1
  /\ resp = NoResponse
  /\ clients = [c \in Clients |-> Idle]

NextLong ==
  \/ get_spendings
  \/ \E s \in SpendingCreate : create_spending(s)
  \/ get_income
  \/ \E i \in IncomeCreate : create_income(i)

SpecLong == InitLong /\ [][NextLong]_vars

(***************************************************************************)
(* Updates that give one field only, a zero or an empty string, on records *)
(* made by single creates.                                                 *)
(***************************************************************************)
ZeroSpendingUpdate ==
  { [category |-> None,     date |-> None, amount |-> Some(0)],
    [category |-> Some(""), date |-> None, amount |-> None] }

ZeroIncomeUpdate ==
  { [income |-> Some(0), saved |-> None,    home |-> None],
    [income |-> None,    saved |-> Some(0), home |-> None],
    [income |-> None,    saved |-> None,    home |-> Some(0)] }

NextZero ==
  \/ \E s \in SpendingCreate : create_spending(s)
  \/ \E id \in PathIds, s \in ZeroSpendingUpdate : update_spending(id, s)
  \/ \E i \in IncomeCreate : create_income(i)
  \/ \E m \in Months, i \in ZeroIncomeUpdate : update_income(m, i)

SpecZero == Init /\ [][NextZero]_vars

(***************************************************************************)
(* Seed calls served concurrently.  seed_data awaits the store four times: *)
(* count_documents on each ledger, then insert_many on each.  Each step    *)
(* below is one of these store calls with the code that follows it up to   *)
(* the next await.  Each client sends one seed call; spendings are created *)
(* and deleted by other requests meanwhile.                                *)
(***************************************************************************)
\* spending_count = await db.spendings.count_documents({})
seed_data_count_spendings(c) ==
  /\ clients[c].pc = "idle"
  /\ clients' = [clients EXCEPT ![c] =
       [pc |-> "seed_data_count_income", spending_count |-> Len(spendings)]]
  /\ UNCHANGED <<spendings, income, nextId, nextOid, clock, resp>>

\* income_count = await db.income.count_documents({}), the guard, and the
\* construction of spending_docs.
seed_data_count_income(c) ==
  /\ clients[c].pc = "seed_data_count_income"
  /\ LET spending_count == clients[c].spending_count
         income_count == Len(income)
     IN  IF spending_count > 0 \/ income_count > 0
           THEN /\ clients' = [clients EXCEPT ![c] =
                     [pc |-> "done",
                      resp |-> Response("seed_data", 200,
                                 [message |-> "Database already has data",
                                  spendings |-> spending_count,
                                  income_records |-> income_count])]]
                /\ UNCHANGED <<nextId, clock>>
           ELSE /\ nextId <= MaxId
                /\ LET ns == Len(initial_spendings)
                   IN  /\ clients' = [clients EXCEPT ![c] =
                            [pc |-> "seed_data_insert_spendings",
                             spending_docs |->
                               [k \in 1..ns |->
                                  Spending(initial_spendings[k], nextId + k - 1,
                                           clock + k - 1)]]]
                       /\ Drawn(ns)
  /\ UNCHANGED <<spendings, income, nextOid, resp>>

\* await db.spendings.insert_many(spending_docs), and the construction of
\* income_docs.
seed_data_insert_spendings(c) ==
  /\ clients[c].pc = "seed_data_insert_spendings"
  /\ LET spending_docs == clients[c].spending_docs
         ni == Len(initial_income)
     IN  /\ spendings' = IF spending_docs /= <<>>
                           THEN insert_many(spendings, spending_docs, nextOid)
                           ELSE spendings
         /\ nextOid' = nextOid + Len(spending_docs)
         /\ clients' = [clients EXCEPT ![c] =
              [pc |-> "seed_data_insert_income",
               spendings_created |-> Len(spending_docs),
               income_docs |->
                 [k \in 1..ni |->
                    Income(initial_income[k], nextId + k - 1, clock + k - 1)]]]
         /\ Drawn(ni)
  /\ UNCHANGED <<income, resp>>

\* await db.income.insert_many(income_docs), and the return.
seed_data_insert_income(c) ==
  /\ clients[c].pc = "seed_data_insert_income"
  /\ LET income_docs == clients[c].income_docs
     IN  /\ income' = IF income_docs /= <<>>
                        THEN insert_many(income, income_docs, nextOid)
                        ELSE income
         /\ nextOid' = nextOid + Len(income_docs)
         /\ clients' = [clients EXCEPT ![c] =
              [pc |-> "done",
               resp |-> Response("seed_data", 200,
                          [message |-> "Database seeded successfully",
                           spendings_created |-> clients[c].spendings_created,
                           income_records_created |-> Len(income_docs)])]]
  /\ UNCHANGED <<spendings, nextId, clock, resp>>

NextSeed ==
  \/ \E c \in Clients : seed_data_count_spendings(c)
  \/ \E c \in Clients : seed_data_count_income(c)
  \/ \E c \in Clients : seed_data_insert_spendings(c)
  \/ \E c \in Clients : seed_data_insert_income(c)
  \/ \E s \in SpendingCreate : create_spending(s)
  \/ \E id \in PathIds : delete_spending(id)

SpecSeed == Init /\ [][NextSeed]_vars

(***************************************************************************)
(* Statistics calls served concurrently with creates.  get_statistics      *)
(* awaits the store twice, to read db.spendings and then db.income; the    *)
(* aggregate is computed after the second read.  Each client sends one     *)
(* statistics call.  A client's record also keeps, as history, the _id the *)
(* store was to give next when the call made its first read (started) and  *)
(* its second (ended): documents are only inserted here, so the store as   *)
(* it was at a moment is the documents with a smaller _id.                 *)
(***************************************************************************)
\* spendings = await db.spendings.find({}, {"_id": 0, "amount": 1}).to_list(10000)
get_statistics_read_spendings(c) ==
  /\ clients[c].pc = "idle"
  /\ clients' = [clients EXCEPT ![c] =
       [pc |-> "get_statistics_read_income",
        spendings |->
          to_list([i \in 1..Len(spendings) |-> Project(spendings[i], {"amount"})],
                  StatsSpendingCap),
        started |-> nextOid]]
  /\ UNCHANGED <<spendings, income, nextId, nextOid, clock, resp>>

\* income_records = await db.income.find(...).to_list(1000), the sums and
\* the return.
get_statistics_read_income(c) ==
  /\ clients[c].pc = "get_statistics_read_income"
  /\ clients' = [clients EXCEPT ![c] =
       [pc |-> "done",
        resp |-> Response("get_statistics", 200,
                   statistics(
                     clients[c].spendings,
                     to_list([i \in 1..Len(income) |->
                                Project(income[i], {"income", "saved", "home"})],
                             StatsIncomeCap))),
        started |-> clients[c].started,
        ended |-> nextOid]]
  /\ UNCHANGED <<spendings, income, nextId, nextOid, clock, resp>>

NextSnap ==
  \/ \E c \in Clients : get_statistics_read_spendings(c)
  \/ \E c \in Clients : get_statistics_read_income(c)
  \/ \E s \in SpendingCreate : create_spending(s)
  \/ \E i \in IncomeCreate : create_income(i)

SpecSnap == Init /\ [][NextSnap]_vars

(***************************************************************************)
(* What the claims below read of a state.                                  *)
(***************************************************************************)
\* The step answers a request to the handler op.  Stated first, it keeps a
\* handler from being tried on a step that served another one.
Served(op) == resp'.op = op

\* The months of the income records, in ledger order.
MonthsOf(coll) == [k \in 1..Len(coll) |-> coll[k].month]

\* A request body names field f with a value (present and not null).
Given(body, f) == Len(body[f]) = 1

\* The value a record's field has after a partial update with body.
After(doc, body, f) == IF Given(body, f) THEN body[f][1] ELSE doc[f]

\* coll2 is coll with exactly the record at position k replaced.
OnlyChanged(coll, coll2, k) ==
  /\ Len(coll2) = Len(coll)
  /\ \A j \in 1..Len(coll) : j /= k => coll2[j] = coll[j]

(***************************************************************************)
(* C1.  An income create served alone fails with 400 and leaves the ledger *)
(* as it was when a record for the requested month already exists;         *)
(* otherwise it answers 201 and appends exactly one record, of that month. *)
(* So of two creates in sequence for one month the second fails, and for   *)
(* two different months both succeed.                                      *)
(***************************************************************************)
C1_CreateIncomeChecksMonth ==
  [][Served("create_income") =>
     \A i \in IncomeCreate :
       create_income(i) =>
         IF \E k \in 1..Len(income) : income[k].month = i.month
           THEN /\ resp'.status = 400
                /\ income' = income
           ELSE /\ resp'.status = 201
                /\ Len(income') = Len(income) + 1
                /\ SubSeq(income', 1, Len(income)) = income
                /\ income'[Len(income')].month = i.month
                /\ resp'.body.month = i.month]_vars

\* A create was refused because the ledger already holds its month.
C1_Witness ==
  /\ resp.op = "create_income"
  /\ resp.status = 400
  /\ Len(income) = 1

(***************************************************************************)
(* C2.  At most one income record per distinct month, in every reachable   *)
(* state.                                                                  *)
(***************************************************************************)
C2_OneRecordPerMonth ==
  \A a, b \in 1..Len(income) : income[a].month = income[b].month => a = b

(***************************************************************************)
(* C4.  An income bulk-create always succeeds: whatever months the batch   *)
(* carries, repeated in the batch or present in the ledger, it appends one *)
(* record per item, in order, and reports the batch length.                *)
(***************************************************************************)
C4_BulkIncomeInsertsAll ==
  [][Served("create_bulk_income") =>
     \A batch \in ListsOf(IncomeCreate, MaxBatch) :
       create_bulk_income(batch) =>
         /\ resp'.status = 200
         /\ resp'.body.message[2] = Len(batch)
         /\ Len(income') = Len(income) + Len(batch)
         /\ SubSeq(income', 1, Len(income)) = income
         /\ \A k \in 1..Len(batch) :
              income'[Len(income) + k].month = batch[k].month]_vars

\* A bulk-create of two items has left two records of one month.
C4_Witness ==
  /\ resp.op = "create_bulk_income"
  /\ resp.body.message[2] = 2
  /\ Len(income) = 2
  /\ income[1].month = income[2].month

(***************************************************************************)
(* C5.  A spending update with a non-empty change-set on an existing id    *)
(* answers 200, sets exactly the fields the request gives, keeps every     *)
(* other field of that record and every other record, and returns the      *)
(* record as it is after the update.                                       *)
(***************************************************************************)
C5_UpdateSpendingPartial ==
  [][Served("update_spending") =>
     \A id \in PathIds, s \in SpendingUpdate :
       ( /\ \E f \in {"category", "date", "amount"} : Given(s, f)
         /\ \E k \in 1..Len(spendings) : spendings[k].id = id
         /\ update_spending(id, s) )
       => \E k \in 1..Len(spendings) :
            /\ spendings[k].id = id
            /\ OnlyChanged(spendings, spendings', k)
            /\ \A f \in {"category", "date", "amount"} :
                 spendings'[k][f] = After(spendings[k], s, f)
            /\ \A f \in {"_id", "id", "created_at"} :
                 spendings'[k][f] = spendings[k][f]
            /\ resp'.status = 200
            /\ resp'.body = [f \in SpendingFields |-> spendings'[k][f]]
            /\ income' = income]_vars

\* An update succeeded while the ledger holds another record as well: the
\* record returned is in the ledger as returned.
C5_Witness ==
  /\ resp.op = "update_spending"
  /\ resp.status = 200
  /\ Len(spendings) = 2
  /\ \E k \in 1..2 : DropOid(spendings[k]) = resp.body

(***************************************************************************)
(* C6.  An update whose change-set is empty answers 400, never 404,        *)
(* whether or not the id or month exists, for spendings and income alike,  *)
(* and leaves the store as it was.                                         *)
(***************************************************************************)
C6_EmptyUpdateIs400 ==
  [][/\ Served("update_spending") =>
          \A id \in PathIds, s \in SpendingUpdate :
            ( /\ \A f \in {"category", "date", "amount"} : ~Given(s, f)
              /\ update_spending(id, s) )
            => resp'.status = 400 /\ store' = store
     /\ Served("update_income") =>
          \A m \in Months, i \in IncomeUpdate :
            ( /\ \A f \in {"income", "saved", "home"} : ~Given(i, f)
              /\ update_income(m, i) )
            => resp'.status = 400 /\ store' = store]_vars

\* An empty update was refused although no record could have matched.
C6_Witness ==
  /\ resp.op = "update_spending"
  /\ resp.status = 400
  /\ spendings = <<>>

(***************************************************************************)
(* C7.  A delete answers 404, and changes nothing, exactly when no record  *)
(* matches; otherwise it answers 200 and removes one matching record.      *)
(* After a successful spending delete no record has that id, so the next   *)
(* delete of the same id is one that answers 404.                          *)
(***************************************************************************)
C7_DeleteReportsNotFound ==
  [][/\ Served("delete_spending") => \A id \in PathIds :
          delete_spending(id) =>
            IF \E k \in 1..Len(spendings) : spendings[k].id = id
              THEN /\ resp'.status = 200
                   /\ Len(spendings') = Len(spendings) - 1
                   /\ \A k \in 1..Len(spendings') : spendings'[k].id /= id
                   /\ \A k \in 1..Len(spendings) :
                        spendings[k].id /= id =>
                          \E j \in 1..Len(spendings') : spendings'[j] = spendings[k]
              ELSE resp'.status = 404 /\ store' = store
     /\ Served("delete_income") => \A m \in Months :
          delete_income(m) =>
            IF \E k \in 1..Len(income) : income[k].month = m
              THEN /\ resp'.status = 200
                   /\ \E k \in 1..Len(income) :
                        /\ income[k].month = m
                        /\ income' = SubSeq(income, 1, k - 1)
                                       \o SubSeq(income, k + 1, Len(income))
              ELSE resp'.status = 404 /\ store' = store]_vars

\* A spending delete was refused for an id no record has, and the record
\* the ledger holds is still there.
C7_Witness ==
  /\ resp.op = "delete_spending"
  /\ resp.status = 404
  /\ Len(spendings) = 1

(***************************************************************************)
(* C8.  An update with a non-empty change-set for an id or month no record *)
(* has answers 404, creates nothing and leaves both ledgers as they were.  *)
(***************************************************************************)
C8_UpdateMissingIs404 ==
  [][/\ Served("update_spending") =>
          \A id \in PathIds, s \in SpendingUpdate :
            ( /\ \E f \in {"category", "date", "amount"} : Given(s, f)
              /\ \A k \in 1..Len(spendings) : spendings[k].id /= id
              /\ update_spending(id, s) )
            => resp'.status = 404 /\ store' = store
     /\ Served("update_income") =>
          \A m \in Months, i \in IncomeUpdate :
            ( /\ \E f \in {"income", "saved", "home"} : Given(i, f)
              /\ \A k \in 1..Len(income) : income[k].month /= m
              /\ update_income(m, i) )
            => resp'.status = 404 /\ store' = store]_vars

\* An income update was refused for a month the ledger does not hold,
\* while it holds another.
C8_Witness ==
  /\ resp.op = "update_income"
  /\ resp.status = 404
  /\ Len(income) = 1

(***************************************************************************)
(* C9.  An income update selects its record by month: a successful one     *)
(* returns a record of the requested month, changes in one record of that  *)
(* month the fields the request gives and nothing else, and no update      *)
(* changes the months the ledger holds.                                    *)
(***************************************************************************)
C9_UpdateIncomeByMonth ==
  [][Served("update_income") =>
     \A m \in Months, i \in IncomeUpdate :
       update_income(m, i) =>
         /\ MonthsOf(income') = MonthsOf(income)
         /\ resp'.status = 200 =>
              \E k \in 1..Len(income) :
                /\ income[k].month = m
                /\ OnlyChanged(income, income', k)
                /\ \A f \in {"income", "saved", "home"} :
                     income'[k][f] = After(income[k], i, f)
                /\ \A f \in {"_id", "id", "month", "created_at"} :
                     income'[k][f] = income[k][f]
                /\ resp'.body = [f \in IncomeFields |-> income'[k][f]]
                /\ resp'.body.month = m]_vars

\* An update succeeded while the ledger holds records of two months.
C9_Witness ==
  /\ resp.op = "update_income"
  /\ resp.status = 200
  /\ Len(income) = 2
  /\ income[1].month /= income[2].month

(***************************************************************************)
(* C3.  create_income is a read followed by a write, not one step: a       *)
(* client that found no record of its month inserts and answers 201        *)
(* whatever the ledger holds by then.  Two concurrent creates for one      *)
(* month can therefore both succeed and leave two records of that month    *)
(* (the state C3_Witness describes).                                       *)
(***************************************************************************)
C3_CreateIncomeInsertsAfterCheck ==
  [][\A c \in Clients :
       ( clients[c].pc = "create_income_insert" /\ create_income_insert(c) )
       => /\ clients'[c].pc = "done"
          /\ clients'[c].resp.status = 201
          /\ Len(income') = Len(income) + 1
          /\ SubSeq(income', 1, Len(income)) = income
          /\ income'[Len(income')].month = clients[c].income.month]_vars

\* Two clients were both answered 201 for one month, and the ledger holds
\* the two records.
C3_Witness ==
  \E c, d \in Clients :
    /\ c /= d
    /\ clients[c].pc = "done" /\ clients[c].resp.status = 201
    /\ clients[d].pc = "done" /\ clients[d].resp.status = 201
    /\ clients[c].resp.body.month = clients[d].resp.body.month
    /\ clients[c].resp.body.id /= clients[d].resp.body.id
    /\ \E a, b \in 1..Len(income) :
         /\ a /= b
         /\ income[a].id = clients[c].resp.body.id
         /\ income[b].id = clients[d].resp.body.id
         /\ income[a].month = income[b].month

(***************************************************************************)
(* C10.  For every content of the two ledgers, statistics returns the sums *)
(* of all spending amounts and of all income, saved and home fields (a     *)
(* missing field counted as 0), net_balance = total_income -               *)
(* total_spending, the number of spending records and the number of income *)
(* records, and changes neither ledger.                                    *)
(***************************************************************************)
\* The sum of field f over all documents of coll, a missing field counted
\* as 0: each value times the number of documents that have it.
RECURSIVE Weighted(_, _, _)
Weighted(coll, f, values) ==
  IF values = {} THEN 0
  ELSE LET v == CHOOSE x \in values : TRUE
       IN  v * Cardinality({ k \in 1..Len(coll) :
                               (IF f \in DOMAIN coll[k] THEN coll[k][f] ELSE 0) = v })
           + Weighted(coll, f, values \ {v})

Total(coll, f) ==
  Weighted(coll, f, { IF f \in DOMAIN coll[k] THEN coll[k][f] ELSE 0 : k \in 1..Len(coll) })

C10_StatisticsOverAllRecords ==
  [][( Served("get_statistics") /\ get_statistics )
     => /\ resp'.status = 200
        /\ resp'.body.total_spending = Total(spendings, "amount")
        /\ resp'.body.total_income = Total(income, "income")
        /\ resp'.body.total_saved = Total(income, "saved")
        /\ resp'.body.total_home = Total(income, "home")
        /\ resp'.body.net_balance = Total(income, "income") - Total(spendings, "amount")
        /\ resp'.body.spending_count = Len(spendings)
        /\ resp'.body.income_months = Len(income)
        /\ store' = store]_vars

(***************************************************************************)
(* C11.  A seed call that finds a record in at least one of the two        *)
(* ledgers, also when the other is empty, inserts nothing, leaves both as  *)
(* they were and reports how many records each holds; a seed call that     *)
(* finds both empty puts the built-in dataset into both.                   *)
(***************************************************************************)
\* coll holds exactly the records made of the entries of dataset, in order.
Loaded(coll, dataset, fields) ==
  /\ Len(coll) = Len(dataset)
  /\ \A k \in 1..Len(dataset) : \A f \in fields :
       coll[k][f] = IF f \in {"saved", "home"} THEN Default(dataset[k][f], 0)
                    ELSE dataset[k][f]

C11_SeedGuard ==
  [][( Served("seed_data") /\ seed_data ) =>
       IF spendings /= <<>> \/ income /= <<>>
         THEN /\ store' = store
              /\ nextId' = nextId
              /\ resp'.status = 200
              /\ resp'.body.spendings = Len(spendings)
              /\ resp'.body.income_records = Len(income)
         ELSE /\ Loaded(spendings', initial_spendings, {"category", "date", "amount"})
              /\ Loaded(income', initial_income, {"month", "income", "saved", "home"})
              /\ spendings' /= <<>>
              /\ income' /= <<>>]_vars

\* A seed call held back although the spending ledger was empty: only the
\* income ledger had a record.
C11_Witness ==
  /\ resp.op = "seed_data"
  /\ resp.body.message = "Database already has data"
  /\ spendings = <<>>
  /\ Len(income) = 1
  /\ resp.body.spendings = 0
  /\ resp.body.income_records = 1

(***************************************************************************)
(* C12.  Two seed calls in sequence on an empty store: the first loads the *)
(* dataset and reports nonzero counts for both ledgers; the second, served *)
(* right after it, reports the same two counts and leaves the store as the *)
(* first left it.                                                          *)
(***************************************************************************)
C12_SeedTwice ==
  [][( /\ Served("seed_data")
       /\ resp.op = "seed_data"
       /\ resp.body.message = "Database seeded successfully"
       /\ seed_data )
     => /\ resp.body.spendings_created > 0
        /\ resp.body.income_records_created > 0
        /\ resp'.body.message = "Database already has data"
        /\ resp'.body.spendings = resp.body.spendings_created
        /\ resp'.body.income_records = resp.body.income_records_created
        /\ store' = store
        /\ nextId' = nextId]_vars

\* The second of two seed calls on the empty store has been answered: the
\* store holds the dataset as the first call made it.
C12_Witness ==
  /\ resp.op = "seed_data"
  /\ resp.body.message = "Database already has data"
  /\ nextId = 1 + Len(initial_spendings) + Len(initial_income)
  /\ Loaded(spendings, initial_spendings, {"category", "date", "amount"})
  /\ Loaded(income, initial_income, {"month", "income", "saved", "home"})
  /\ resp.body.spendings = Len(initial_spendings)
  /\ resp.body.income_records = Len(initial_income)

(***************************************************************************)
(* C13.  As claimed: seed reports the number of records this call created  *)
(* in each ledger, the size of the dataset when it loads and 0 for both    *)
(* ledgers when it holds back.                                             *)
(***************************************************************************)
C13_SeedReportsNewlyCreated ==
  [][( Served("seed_data") /\ seed_data ) =>
       IF spendings /= <<>> \/ income /= <<>>
         THEN /\ resp'.body.spendings = 0
              /\ resp'.body.income_records = 0
         ELSE /\ resp'.body.spendings_created = Len(initial_spendings)
              /\ resp'.body.income_records_created = Len(initial_income)]_vars

(***************************************************************************)
(* C13, amended.  When seed loads, it reports the number of records this   *)
(* call created in each ledger, the size of the dataset; when it holds     *)
(* back it creates none and reports the number of records each ledger      *)
(* already holds, of which at least one is not 0.                          *)
(***************************************************************************)
C13_SeedReportsCounts ==
  [][( Served("seed_data") /\ seed_data ) =>
       IF spendings /= <<>> \/ income /= <<>>
         THEN /\ Len(spendings') = Len(spendings)
              /\ Len(income') = Len(income)
              /\ resp'.body.spendings = Len(spendings)
              /\ resp'.body.income_records = Len(income)
              /\ resp'.body.spendings > 0 \/ resp'.body.income_records > 0
         ELSE /\ resp'.body.spendings_created = Len(spendings') - Len(spendings)
              /\ resp'.body.income_records_created = Len(income') - Len(income)
              /\ resp'.body.spendings_created = Len(initial_spendings)
              /\ resp'.body.income_records_created = Len(initial_income)]_vars

\* A seed call held back and reported two records in the spending ledger.
C13_Witness ==
  /\ resp.op = "seed_data"
  /\ resp.body.message = "Database already has data"
  /\ resp.body.spendings = 2
  /\ Len(spendings) = 2

(***************************************************************************)
(* C14.  As claimed: a successful spending or income create returns a      *)
(* record that carries every input field with the input value (saved and   *)
(* home 0 when the request omits them), an id and a created_at; and the    *)
(* list call served right after it holds the record of that id, equal to   *)
(* the one returned.                                                       *)
(***************************************************************************)
\* The record returned by create_spending for the request s.
Carries_spending(rec, s) ==
  /\ DOMAIN rec = SpendingFields
  /\ rec.category = s.category
  /\ rec.date = s.date
  /\ rec.amount = s.amount

\* The record returned by create_income for the request i.
Carries_income(rec, i) ==
  /\ DOMAIN rec = IncomeFields
  /\ rec.month = i.month
  /\ rec.income = i.income
  /\ rec.saved = (IF Given(i, "saved") THEN i.saved[1] ELSE 0)
  /\ rec.home = (IF Given(i, "home") THEN i.home[1] ELSE 0)

\* The list holds a record with rec's id, and each such record equals rec.
Lists(list, rec) ==
  /\ \E k \in 1..Len(list) : list[k].id = rec.id
  /\ \A k \in 1..Len(list) : list[k].id = rec.id => list[k] = rec

\* What a create returns.
CreateReturnsInput ==
  /\ Served("create_spending") =>
       \A s \in SpendingCreate :
         create_spending(s) => resp'.status = 201 /\ Carries_spending(resp'.body, s)
  /\ Served("create_income") =>
       \A i \in IncomeCreate :
         ( create_income(i) /\ resp'.status = 201 ) => Carries_income(resp'.body, i)

\* Every variable, the response by its handler and status: a step that
\* answers a request changes one of these.
answered == <<spendings, income, nextId, nextOid, clock, clients, resp.op, resp.status>>

C14_RoundTrip ==
  [][/\ CreateReturnsInput
     /\ ( Served("get_spendings") /\ resp.op = "create_spending" /\ get_spendings )
          => Lists(resp'.body, resp.body)
     /\ ( Served("get_income") /\ resp.op = "create_income" /\ resp.status = 201
          /\ get_income )
          => Lists(resp'.body, resp.body)]_answered

(***************************************************************************)
(* C14, amended.  A successful create returns a record that carries every  *)
(* input field with the input value (saved and home 0 when omitted), an id *)
(* and a created_at; and when the ledger then holds no more records than   *)
(* the list call reads (10,000 spendings, 1,000 income records), the list  *)
(* call served right after the create holds the record of that id, equal   *)
(* to the one returned.                                                    *)
(***************************************************************************)
C14_RoundTripWithinCap ==
  [][/\ CreateReturnsInput
     /\ ( Served("get_spendings") /\ resp.op = "create_spending"
          /\ Len(spendings) <= SpendingListCap /\ get_spendings )
          => Lists(resp'.body, resp.body)
     /\ ( Served("get_income") /\ resp.op = "create_income" /\ resp.status = 201
          /\ Len(income) <= IncomeListCap /\ get_income )
          => Lists(resp'.body, resp.body)]_vars

\* The income ledger was listed after one create that omitted saved and
\* home: the one record listed has both as 0.
C14_Witness ==
  /\ resp.op = "get_income"
  /\ nextId = 2
  /\ Len(income) = 1
  /\ Len(resp.body) = 1
  /\ resp.body[1].id = 1
  /\ resp.body[1].income = 200
  /\ resp.body[1].saved = 0
  /\ resp.body[1].home = 0

(***************************************************************************)
(* C15.  A spending bulk-create with a list of n items appends n records,  *)
(* one per item in order, each with an id no other record has, items that  *)
(* repeat category, date and amount included, and reports n; with an empty *)
(* list it writes nothing, leaves the ledger as it was and reports 0.      *)
(***************************************************************************)
C15_BulkSpendingsInsertsAll ==
  [][Served("create_bulk_spendings") =>
     \A batch \in ListsOf(SpendingCreate, MaxBatch) :
       create_bulk_spendings(batch) =>
         /\ resp'.status = 200
         /\ resp'.body.message[2] = Len(batch)
         /\ Len(spendings') = Len(spendings) + Len(batch)
         /\ SubSeq(spendings', 1, Len(spendings)) = spendings
         /\ \A k \in 1..Len(batch) :
              /\ Carries_spending(DropOid(spendings'[Len(spendings) + k]), batch[k])
              /\ \A j \in 1..Len(spendings') :
                   spendings'[j].id = spendings'[Len(spendings) + k].id
                     => j = Len(spendings) + k
         /\ batch = <<>> => store' = store /\ nextOid' = nextOid
         /\ income' = income]_vars

\* A bulk-create of two equal items has left two records that differ in id
\* only.
C15_Witness ==
  /\ resp.op = "create_bulk_spendings"
  /\ resp.body.message[2] = 2
  /\ Len(spendings) = 2
  /\ spendings[1].id /= spendings[2].id
  /\ \A f \in {"category", "date", "amount"} : spendings[1][f] = spendings[2][f]

(***************************************************************************)
(* C16.  In every reachable state no two records of one ledger have the    *)
(* same id, whatever creates, bulk-creates, seed loads, updates and        *)
(* deletes came before, and also when the records agree in every other     *)
(* field a request gives.                                                  *)
(***************************************************************************)
C16_UniqueIds ==
  /\ \A a, b \in 1..Len(spendings) : spendings[a].id = spendings[b].id => a = b
  /\ \A a, b \in 1..Len(income) : income[a].id = income[b].id => a = b

\* Two income records of one month with the same income, saved and home
\* have been updated and still differ in id.
C16_Witness ==
  /\ resp.op = "update_income"
  /\ resp.status = 200
  /\ Len(income) = 2
  /\ \A f \in {"month", "income", "saved", "home"} : income[1][f] = income[2][f]
  /\ income[1].id /= income[2].id

(***************************************************************************)
(* C17.  A record keeps the id and the created_at it was created with for  *)
(* as long as it is stored: no step, and so no update request whatever its *)
(* body, changes either of a spending or an income record.  A stored       *)
(* document is the same record before and after a step when it has the     *)
(* same _id.                                                               *)
(***************************************************************************)
Kept(coll, coll2) ==
  \A a \in 1..Len(coll) : \A b \in 1..Len(coll2) :
    coll[a]._id = coll2[b]._id =>
      /\ coll2[b].id = coll[a].id
      /\ coll2[b].created_at = coll[a].created_at

C17_IdAndCreatedAtKept ==
  [][Kept(spendings, spendings') /\ Kept(income, income')]_vars

\* The first record created has been updated after a second construction
\* and has the id and the created_at of its creation.
C17_Witness ==
  /\ resp.op = "update_income"
  /\ resp.status = 200
  /\ clock = 3
  /\ Len(income) = 2
  /\ income[1].id = 1
  /\ income[1].created_at = 1
  /\ resp.body.id = 1
  /\ resp.body.created_at = 1

(***************************************************************************)
(* C18.  A step that serves a spending operation (list, create,            *)
(* bulk-create, update, delete) leaves the income ledger as it was, a step *)
(* that serves an income operation leaves the spending ledger as it was, a *)
(* list or a statistics call changes neither, and a step that changes both *)
(* ledgers is a seed call.                                                 *)
(***************************************************************************)
SpendingOps ==
  {"get_spendings", "create_spending", "update_spending", "delete_spending",
   "create_bulk_spendings"}

IncomeOps ==
  {"get_income", "create_income", "update_income", "delete_income",
   "create_bulk_income"}

C18_LedgerIsolation ==
  [][/\ resp'.op \in SpendingOps => income' = income
     /\ resp'.op \in IncomeOps => spendings' = spendings
     /\ resp'.op \in {"get_spendings", "get_income", "get_statistics"} => store' = store
     /\ ( spendings' /= spendings /\ income' /= income ) => resp'.op = "seed_data"]_vars

\* A spending was deleted while the income ledger held a record, which it
\* still holds.
C18_Witness ==
  /\ resp.op = "delete_spending"
  /\ resp.status = 200
  /\ spendings = <<>>
  /\ Len(income) = 1
  /\ nextId = 3

(***************************************************************************)
(* C19.  A spending list call answers 200 with all records of the ledger   *)
(* when it holds at most 10,000 and with exactly its first 10,000          *)
(* otherwise; an income list call with all records when at most 1,000 and  *)
(* exactly the first 1,000 otherwise.  So a list is never longer than its  *)
(* cap and each record listed is a record of the ledger.                   *)
(***************************************************************************)
\* list is the first Min(Len(coll), cap) documents of coll, without _id.
FirstOf(list, coll, cap) ==
  /\ Len(list) = (IF Len(coll) <= cap THEN Len(coll) ELSE cap)
  /\ \A k \in 1..Len(list) : list[k] = DropOid(coll[k])

C19_ListTruncation ==
  [][/\ Served("get_spendings")
          => /\ resp'.status = 200
             /\ FirstOf(resp'.body, spendings, 10000)
             /\ store' = store
     /\ Served("get_income")
          => /\ resp'.status = 200
             /\ FirstOf(resp'.body, income, 1000)
             /\ store' = store]_answered

\* A spending list of 10,000 records was returned from a ledger that holds
\* one more.
C19_Witness ==
  /\ resp.op = "get_spendings"
  /\ resp.status = 200
  /\ Len(spendings) = 10001
  /\ Len(resp.body) = 10000

(***************************************************************************)
(* C20.  An update whose only field is a zero number (amount, income,      *)
(* saved or home) or an empty string (category) has a non-empty            *)
(* change-set: it is never answered 400, and on an existing record it is   *)
(* answered 200 and the record stored and returned has that zero or empty  *)
(* value.                                                                  *)
(***************************************************************************)
\* The one field the body names.
Only(body) == CHOOSE f \in DOMAIN body : Given(body, f)

C20_ZeroIsNotEmpty ==
  [][/\ Served("update_spending") =>
          \A id \in PathIds, s \in ZeroSpendingUpdate :
            update_spending(id, s) =>
              /\ resp'.status /= 400
              /\ ( \E k \in 1..Len(spendings) : spendings[k].id = id )
                   => /\ resp'.status = 200
                      /\ resp'.body[Only(s)] = s[Only(s)][1]
                      /\ \E k \in 1..Len(spendings') :
                           /\ spendings'[k].id = id
                           /\ spendings'[k][Only(s)] = s[Only(s)][1]
     /\ Served("update_income") =>
          \A m \in Months, i \in ZeroIncomeUpdate :
            update_income(m, i) =>
              /\ resp'.status /= 400
              /\ ( \E k \in 1..Len(income) : income[k].month = m )
                   => /\ resp'.status = 200
                      /\ resp'.body[Only(i)] = 0
                      /\ \E k \in 1..Len(income') :
                           /\ income'[k].month = m
                           /\ DropOid(income'[k]) = resp'.body]_vars

\* A spending created as Food with amount 100 has had its category set to
\* the empty string, and is stored so.
C20_Witness ==
  /\ resp.op = "update_spending"
  /\ resp.status = 200
  /\ resp.body.category = ""
  /\ resp.body.amount = 100
  /\ \E k \in 1..Len(spendings) : DropOid(spendings[k]) = resp.body

(***************************************************************************)
(* C21.  With several income records of one month in the ledger, a delete  *)
(* by month answers 200 and removes exactly one of them, so one fewer      *)
(* remains and the next delete succeeds while any remains; an update by    *)
(* month with a non-empty change-set answers 200 and changes exactly one   *)
(* of them; and a create for the month is answered 400, the ledger left as *)
(* it was, as long as one remains.                                         *)
(***************************************************************************)
\* How many records of coll are of month m.
CountOf(coll, m) == Cardinality({ k \in 1..Len(coll) : coll[k].month = m })

C21_OneOfSeveral ==
  [][/\ Served("delete_income") =>
          \A m \in Months :
            ( CountOf(income, m) >= 1 /\ delete_income(m) )
            => /\ resp'.status = 200
               /\ CountOf(income', m) = CountOf(income, m) - 1
               /\ \E k \in 1..Len(income) :
                    /\ income[k].month = m
                    /\ income' = RemoveAt(income, k)
     /\ Served("update_income") =>
          \A m \in Months, i \in IncomeUpdate :
            ( /\ CountOf(income, m) >= 2
              /\ \E f \in {"income", "saved", "home"} : Given(i, f)
              /\ update_income(m, i) )
            => /\ resp'.status = 200
               /\ CountOf(income', m) = CountOf(income, m)
               /\ \E k \in 1..Len(income) :
                    /\ income[k].month = m
                    /\ OnlyChanged(income, income', k)
                    /\ \A f \in {"income", "saved", "home"} :
                         income'[k][f] = After(income[k], i, f)
     /\ Served("create_income") =>
          \A i \in IncomeCreate :
            ( CountOf(income, i.month) >= 1 /\ create_income(i) )
            => /\ resp'.status = 400
               /\ store' = store]_vars

\* Of two records of one month made with saved 0, an update has set saved
\* to 10 in one and left the other as it was.
C21_Witness ==
  /\ resp.op = "update_income"
  /\ resp.status = 200
  /\ Len(income) = 2
  /\ income[1].month = income[2].month
  /\ resp.body.saved = 10
  /\ \E k \in 1..2 :
       /\ DropOid(income[k]) = resp.body
       /\ income[3 - k].saved = 0

(***************************************************************************)
(* C22.  Whatever the interleaving of two or more seed calls and other     *)
(* writes on a store that starts empty, the dataset is loaded at most      *)
(* once: no reachable state has two spending records made of the same seed *)
(* entry, or two income records of one seeded month.                       *)
(***************************************************************************)
\* The record is made of the k-th entry of the seed's spending list.
FromSeed(rec, k) ==
  \A f \in {"category", "date", "amount"} : rec[f] = initial_spendings[k][f]

C22_SeedLoadsOnce ==
  /\ \A k \in 1..Len(initial_spendings) :
       \A a, b \in 1..Len(spendings) :
         ( FromSeed(spendings[a], k) /\ FromSeed(spendings[b], k) ) => a = b
  /\ \A k \in 1..Len(initial_income) :
       \A a, b \in 1..Len(income) :
         ( /\ income[a].month = initial_income[k].month
           /\ income[b].month = initial_income[k].month ) => a = b

(***************************************************************************)
(* C23.  As claimed: whatever writes interleave with a statistics call,    *)
(* the aggregate it returns, all seven fields together, is the aggregate   *)
(* of one state the store was in between the start and the end of the      *)
(* call.                                                                   *)
(***************************************************************************)
\* The documents coll held when the store was to give _id t next.
Before(coll, t) == SelectSeq(coll, LAMBDA d : d._id < t)

\* The seven fields over a spending ledger and an income ledger.
Aggregate(spendings_l, income_l) ==
  [total_spending |-> Total(spendings_l, "amount"),
   total_income   |-> Total(income_l, "income"),
   total_saved    |-> Total(income_l, "saved"),
   total_home     |-> Total(income_l, "home"),
   net_balance    |-> Total(income_l, "income") - Total(spendings_l, "amount"),
   spending_count |-> Len(spendings_l),
   income_months  |-> Len(income_l)]

C23_StatisticsOfOneState ==
  \A c \in Clients :
    clients[c].pc = "done" =>
      \E t \in clients[c].started..clients[c].ended :
        clients[c].resp.body = Aggregate(Before(spendings, t), Before(income, t))

(***************************************************************************)
(* C23, amended.  The aggregate a statistics call returns is that of the   *)
(* spending ledger as its first read found it and of the income ledger as  *)
(* its second read found it (each read taking at most as many records as   *)
(* get_statistics reads), net_balance being the difference of the two      *)
(* totals; with writes in between, the two need not have been in the store *)
(* together.                                                               *)
(***************************************************************************)
C23_StatisticsOfTwoReads ==
  \A c \in Clients :
    clients[c].pc = "done" =>
      clients[c].resp.body =
        Aggregate(to_list(Before(spendings, clients[c].started), StatsSpendingCap),
                  to_list(Before(income, clients[c].ended), StatsIncomeCap))

\* A call that read the spending ledger empty and then the income ledger
\* with one record has returned; the spending was created before the
\* income record, so the store never held that income record without it.
C23_Witness ==
  \E c \in Clients :
    /\ clients[c].pc = "done"
    /\ clients[c].resp.body.spending_count = 0
    /\ clients[c].resp.body.income_months = 1
    /\ Len(spendings) = 1
    /\ Len(income) = 1
    /\ spendings[1]._id < income[1]._id
    /\ clients[c].started <= spendings[1]._id
    /\ clients[c].ended > income[1]._id

====
